---- MODULE Spec2Model ----
(***************************************************************************)
(* A model of the inner-pairing-product argument of nirvantyagi/ripp:      *)
(* the GIPA halving prover (gipa/src/lib.rs), the TIPA prover and          *)
(* verifier with their SRS (ip_proofs/src/tipa/mod.rs), the Pedersen       *)
(* commitment (dh_commitments/src/pedersen/mod.rs) and the polynomial      *)
(* commitments built on them (ip_proofs/src/applications/poly_commit.rs).  *)
(*                                                                         *)
(* Algebra.  The scalar field P::Fr is the prime field of P elements.      *)
(* An element of G1, G2 or Gt is represented by its discrete logarithm to  *)
(* the base g, h or e(g,h): group addition is field addition, the scalar   *)
(* action is field multiplication and the pairing multiplies exponents.    *)
(* Two group elements are equal exactly when their exponents are.          *)
(***************************************************************************)
EXTENDS Integers, Sequences, FiniteSets, TLC

VARIABLES phase, inp, out, ver

vars == <<phase, inp, out, ver>>

(***************************** bounds **************************************)
\* largest k of a vector length n = 2^k
MaxLog == 2
\* largest vector length handed to GIPA::prove (any length, not only 2^k)
MaxLen == 8
\* seeds of the message vectors
MaxSeed == 1
\* choices of the digest D
MaxDigest == 1
\* trapdoors alpha, beta of setup are drawn from 0..MaxTrap
MaxTrap == 2
\* shift scalars r are drawn from 0..MaxShift
MaxShift == 3
\* largest x_degree and y_degree handed to the bivariate setup
MaxXDegree == 3
MaxYDegree == 3
\* largest degree handed to the univariate setup
MaxDegree == 8
\* evaluation points have coordinates in 0..MaxPoint
MaxPoint == 2

(***************************** the field ***********************************)
\* the order of the scalar field P::Fr
P == 7

F == 0 .. (P - 1)

None == <<>>

\* the element of a one-element set; {e(x) : x \in {v}} computes v once and
\* names it x in e
TheOne(S) == CHOOSE x \in S : TRUE

Some(x) == <<x>>

FAdd(a, b) == (a + b) % P

FSub(a, b) == (a - b) % P

FNeg(a) == (0 - a) % P

FMul(a, b) == (a * b) % P

\* Field::inverse: None for zero
inverse(a) ==
  IF a % P = 0 THEN None ELSE Some(CHOOSE x \in 1 .. (P - 1) : (a * x) % P = 1)

\* x.inverse().unwrap() on a value known to be invertible
Inv(a) == inverse(a)[1]

RECURSIVE FPow(_, _)
FPow(a, e) == IF e = 0 THEN 1 ELSE FMul(a, FPow(a, e - 1))

RECURSIVE Pow2(_)
Pow2(k) == IF k = 0 THEN 1 ELSE 2 * Pow2(k - 1)

\* usize::count_ones() == 1
IsPowerOfTwo(n) == \E k \in 0 .. n : Pow2(k) = n

RECURSIVE SumSeq(_)
SumSeq(s) == IF s = <<>> THEN 0 ELSE FAdd(Head(s), SumSeq(Tail(s)))

RECURSIVE ProdSeq(_)
ProdSeq(s) == IF s = <<>> THEN 1 ELSE FMul(Head(s), ProdSeq(Tail(s)))

Reverse(s) == [i \in 1 .. Len(s) |-> s[Len(s) + 1 - i]]

\* InnerProduct::inner_product on vectors of equal length: sum of a_i * b_i
\* (scalar product, multi-exponentiation and pairing product coincide on exponents)
inner_product(a, b) == SumSeq([i \in 1 .. Len(a) |-> FMul(a[i], b[i])])

\* the sum of k_i + m_i in place of the sum of m_i * k_i
commit_additive(k, m) == SumSeq([i \in 1 .. Len(k) |-> FAdd(k[i], m[i])])

\* PedersenCommitment::commit(k, m): the multi-scalar multiplication sum m_i * k_i
commit(k, m) == inner_product(k, m)

\* DoublyHomomorphicCommitment::verify(k, m, com): commit(k, m) == com
commit_verify(k, m, com) == commit(k, m) = com

\* mul_helper(t, f): clone t and multiply it by f
mul_helper(t, f) == FMul(t, f)

(***************************** Fiat-Shamir *********************************)
\* the digest has one more value than the field has elements: the value P is
\* the byte string that from_random_bytes maps to no field element
DigestRange == P + 1

RECURSIVE Mix(_, _)
Mix(xs, w) ==
  IF xs = <<>> THEN 0 ELSE (w * Head(xs) + Mix(Tail(xs), w + 2)) % DigestRange

\* D::digest(counter_nonce.to_be_bytes() || to_bytes![xs]); d selects the digest D
Digest(d, counter_nonce, xs) ==
  (d + 3 * counter_nonce + Mix(xs, 1)) % DigestRange

\* Field::from_random_bytes
from_random_bytes(x) == IF x < P THEN Some(x) ELSE None

(***************************** GIPA (gipa/src/lib.rs) **********************)
Lower(v) == SubSeq(v, 1, Len(v) \div 2)

Upper(v) == SubSeq(v, (Len(v) \div 2) + 1, Len(v))

\* .map(|a| mul_helper(a, &c)).zip(v).map(|(x, y)| x + y)
ScaleAdd(u, c, v) == [i \in 1 .. Len(u) |-> FAdd(mul_helper(u[i], c), v[i])]

\* com_1 of a round: (LMC::commit(ck_a_1, m_a_1), RMC::commit(ck_b_1, m_b_1),
\* IPC::commit(ck_t, [<m_a_1, m_b_1>])) with m_a_1 = m_a[split..],
\* ck_a_1 = ck_a[..split], m_b_1 = m_b[..split], ck_b_1 = ck_b[split..]
com_1(m_a, m_b, ck_a, ck_b, ck_t) ==
  <<commit(Lower(ck_a), Upper(m_a)),
    commit(Upper(ck_b), Lower(m_b)),
    commit(ck_t, <<inner_product(Upper(m_a), Lower(m_b))>>)>>

\* com_2 of a round: the same over m_a_2 = m_a[..split], ck_a_2 = ck_a[split..],
\* m_b_2 = m_b[split..], ck_b_2 = ck_b[..split]
com_2(m_a, m_b, ck_a, ck_b, ck_t) ==
  <<commit(Upper(ck_a), Lower(m_a)),
    commit(Lower(ck_b), Upper(m_b)),
    commit(ck_t, <<inner_product(Lower(m_a), Upper(m_b))>>)>>

\* the loop leaving on any field element, without asking for its inverse
gipa_challenge_any_scalar(d, transcript, c1, c2) ==
  LET x == from_random_bytes(Digest(d, 0, <<transcript>> \o c1 \o c2))
  IN IF x = None THEN None
     ELSE Some(<<x[1], IF inverse(x[1]) = None THEN 0 ELSE Inv(x[1])>>)

\* the loop hashing the field's zero in every round in place of the transcript
gipa_challenge_unchained(d, transcript, c1, c2) ==
  LET x == from_random_bytes(Digest(d, 0, <<0>> \o c1 \o c2))
  IN IF x = None THEN None
     ELSE IF inverse(x[1]) = None THEN None
     ELSE Some(<<x[1], Inv(x[1])>>)

\* the Fiat-Shamir loop of a round.  counter_nonce is bound once, to 0, and the
\* loop body never changes it: every iteration hashes the same input, so the
\* loop leaves with (c, c_inv) on its first iteration or never.  None stands
\* for the loop that never leaves.
gipa_challenge(d, transcript, c1, c2) ==
  LET counter_nonce == 0
      x == from_random_bytes(Digest(d, counter_nonce, <<transcript>> \o c1 \o c2))
  IN IF x = None THEN None
     ELSE IF inverse(x[1]) = None THEN None
     ELSE Some(<<x[1], Inv(x[1])>>)

m_a_recurse(m_a, c) == ScaleAdd(Upper(m_a), c, Lower(m_a))

\* the right message folded with c in place of c_inv
m_b_recurse_with_c(m_b, c_inv) == ScaleAdd(Upper(m_b), Inv(c_inv), Lower(m_b))

m_b_recurse(m_b, c_inv) == ScaleAdd(Upper(m_b), c_inv, Lower(m_b))

\* the left key folded with the challenge itself: c * ck_a[split..] + ck_a[..split]
ck_a_recurse_with_c(ck_a, c_inv) == ScaleAdd(Upper(ck_a), Inv(c_inv), Lower(ck_a))

ck_a_recurse(ck_a, c_inv) == ScaleAdd(Upper(ck_a), c_inv, Lower(ck_a))

\* the halves of the right key exchanged: c * ck_b[..split] + ck_b[split..]
ck_b_recurse_halves_swapped(ck_b, c) == ScaleAdd(Lower(ck_b), c, Upper(ck_b))

ck_b_recurse(ck_b, c) == ScaleAdd(Upper(ck_b), c, Lower(ck_b))

\* GIPA::recursive_prove.  The result lists the rounds and the challenges in
\* the order the recursion pushes them: each round is pushed after the call
\* for the next one has returned.  tag "Diverges" is a Fiat-Shamir loop that
\* never leaves, "Panic" the unreachable!() arm.  ck_base is the pair of keys
\* that reaches the base case.  In a round c1, c2 are com_1, com_2, ch is the
\* pair (c, c_inv) of the Fiat-Shamir loop and rec the result of the call for
\* the next round.
RECURSIVE recursive_prove(_, _, _, _, _, _, _)
recursive_prove(m_a, m_b, ck_a, ck_b, ck_t, transcript, d) ==
  IF Len(m_a) = 1
  THEN [tag |-> "Ok", steps |-> <<>>, base |-> <<m_a[1], m_b[1]>>,
        transcript |-> <<>>, ck_base |-> <<ck_a[1], ck_b[1]>>]
  ELSE IF Len(m_a) >= 2 /\ IsPowerOfTwo(Len(m_a))
  THEN TheOne({
         TheOne({
           IF ch = None
           THEN [tag |-> "Diverges"]
           ELSE TheOne({
                  IF rec.tag # "Ok"
                  THEN rec
                  ELSE [rec EXCEPT !.steps = Append(@, <<c1, c2>>),
                                   !.transcript = Append(@, ch[1][1])]
                  : rec \in {recursive_prove(
                               m_a_recurse(m_a, ch[1][1]), m_b_recurse(m_b, ch[1][2]),
                               ck_a_recurse(ck_a, ch[1][2]), ck_b_recurse(ck_b, ch[1][1]),
                               ck_t, ch[1][1], d)}})
           : ch \in {gipa_challenge(d, transcript, c1, c2)}})
         : c1 \in {com_1(m_a, m_b, ck_a, ck_b, ck_t)},
           c2 \in {com_2(m_a, m_b, ck_a, ck_b, ck_t)}})
  ELSE [tag |-> "Panic"]

\* GIPA::prove without the power-of-two check
GIPA_prove_no_length_check(values, ck, com, d) ==
  IF inner_product(values[1], values[2]) # values[3]
  THEN [tag |-> "InnerProductInvalid"]
  ELSE IF ~(/\ commit_verify(ck[1], values[1], com[1])
            /\ commit_verify(ck[2], values[2], com[2])
            /\ commit_verify(<<ck[3]>>, <<values[3]>>, com[3]))
  THEN [tag |-> "InnerProductInvalid"]
  ELSE LET r == recursive_prove(values[1], values[2], ck[1], ck[2], <<ck[3]>>, 0, d)
       IN IF r.tag # "Ok"
          THEN [tag |-> r.tag]
          ELSE [tag |-> "Ok", steps |-> Reverse(r.steps), base |-> r.base,
                transcript |-> Reverse(r.transcript)]

\* GIPA::prove without the check of the right commitment
GIPA_prove_skip_rmc(values, ck, com, d) ==
  IF inner_product(values[1], values[2]) # values[3]
  THEN [tag |-> "InnerProductInvalid"]
  ELSE IF ~IsPowerOfTwo(Len(values[1]))
  THEN [tag |-> "MessageLengthInvalid"]
  ELSE IF ~(/\ commit_verify(ck[1], values[1], com[1])
            /\ commit_verify(<<ck[3]>>, <<values[3]>>, com[3]))
  THEN [tag |-> "InnerProductInvalid"]
  ELSE LET r == recursive_prove(values[1], values[2], ck[1], ck[2], <<ck[3]>>, 0, d)
       IN IF r.tag # "Ok"
          THEN [tag |-> r.tag]
          ELSE [tag |-> "Ok", steps |-> Reverse(r.steps), base |-> r.base,
                transcript |-> Reverse(r.transcript)]

\* GIPA::prove without r_commitment_steps.reverse()
GIPA_prove_no_reverse(values, ck, com, d) ==
  IF inner_product(values[1], values[2]) # values[3]
  THEN [tag |-> "InnerProductInvalid"]
  ELSE IF ~IsPowerOfTwo(Len(values[1]))
  THEN [tag |-> "MessageLengthInvalid"]
  ELSE IF ~(/\ commit_verify(ck[1], values[1], com[1])
            /\ commit_verify(ck[2], values[2], com[2])
            /\ commit_verify(<<ck[3]>>, <<values[3]>>, com[3]))
  THEN [tag |-> "InnerProductInvalid"]
  ELSE LET r == recursive_prove(values[1], values[2], ck[1], ck[2], <<ck[3]>>, 0, d)
       IN IF r.tag # "Ok"
          THEN [tag |-> r.tag]
          ELSE [tag |-> "Ok", steps |-> r.steps, base |-> r.base,
                transcript |-> Reverse(r.transcript)]

\* GIPA::prove(values, ck, com) under the digest d: the checks in the order of
\* the code, then the recursion from the default (zero) transcript, then both
\* lists reversed
GIPA_prove(values, ck, com, d) ==
  IF inner_product(values[1], values[2]) # values[3]
  THEN [tag |-> "InnerProductInvalid"]
  ELSE IF ~IsPowerOfTwo(Len(values[1]))
  THEN [tag |-> "MessageLengthInvalid"]
  ELSE IF ~(/\ commit_verify(ck[1], values[1], com[1])
            /\ commit_verify(ck[2], values[2], com[2])
            /\ commit_verify(<<ck[3]>>, <<values[3]>>, com[3]))
  THEN [tag |-> "InnerProductInvalid"]
  ELSE LET r == recursive_prove(values[1], values[2], ck[1], ck[2], <<ck[3]>>, 0, d)
       IN IF r.tag # "Ok"
          THEN [tag |-> r.tag]
          ELSE [tag |-> "Ok", steps |-> Reverse(r.steps), base |-> r.base,
                transcript |-> Reverse(r.transcript)]

(***************************** TIPA (ip_proofs/src/tipa/mod.rs) ************)
RECURSIVE generators_loop(_, _, _, _, _)
generators_loop(i, num, g, s, acc) ==
  IF i = num
  THEN acc[1]
  ELSE generators_loop(i + 1, num, g, s, <<Append(acc[1], FMul(g, acc[2])), FMul(acc[2], s)>>)

\* structured_generators_scalar_power(num, g, s): push g.mul(pow_s), pow_s *= s
structured_generators_scalar_power(num, g, s) == generators_loop(0, num, g, s, <<<<>>, 1>>)

\* TIPA::setup(rng, size) with the trapdoors alpha, beta the rng gives; the
\* generators g and h have exponent 1
TIPA_setup(size, alpha, beta) ==
  [g_alpha_powers |-> structured_generators_scalar_power(2 * size - 1, 1, alpha),
   h_beta_powers |-> structured_generators_scalar_power(2 * size - 1, 1, beta),
   g_beta |-> FMul(1, beta),
   h_alpha |-> FMul(1, alpha)]

\* the first half of the powers instead of every second one
FirstHalf(v) == [i \in 1 .. ((Len(v) + 1) \div 2) |-> v[i]]

\* iter().step_by(2)
StepBy2(v) == [i \in 1 .. ((Len(v) + 1) \div 2) |-> v[2 * i - 1]]

\* SRS::get_commitment_keys: (ck_1 over h_beta_powers, ck_2 over g_alpha_powers)
get_commitment_keys(srs) == <<StepBy2(srs.h_beta_powers), StepBy2(srs.g_alpha_powers)>>

\* SRS::get_verifier_key
get_verifier_key(srs) ==
  [g |-> srs.g_alpha_powers[1], h |-> srs.h_beta_powers[1],
   g_beta |-> srs.g_beta, h_alpha |-> srs.h_alpha]

\* polynomial_evaluation_product_form_from_transcript
RECURSIVE product_form_loop(_, _, _, _)
product_form_loop(transcript, i, power_2_zr, product_form) ==
  IF i > Len(transcript)
  THEN ProdSeq(product_form)
  ELSE product_form_loop(transcript, i + 1, FMul(power_2_zr, power_2_zr),
                         Append(product_form, FAdd(1, FMul(transcript[i], power_2_zr))))

\* the same with power_2_zr starting at z * r_shift instead of z * z * r_shift
product_form_unsquared(transcript, z, r_shift) ==
  product_form_loop(transcript, 1, FMul(z, r_shift), <<>>)

polynomial_evaluation_product_form_from_transcript(transcript, z, r_shift) ==
  product_form_loop(transcript, 1, FMul(FMul(z, z), r_shift), <<>>)

\* the coefficients left as they are, no zeros between them
coefficients_packed(c) == c

\* .interleave(zeros.take(len - 1))
Interleave(c) ==
  [i \in 1 .. (2 * Len(c) - 1) |-> IF i % 2 = 1 THEN c[(i + 1) \div 2] ELSE 0]

\* the loops of polynomial_coefficients_from_transcript; sq tells whether
\* power_2_r is squared after each challenge (the code squares it)
RECURSIVE coefficients_loop(_, _, _, _, _)
coefficients_loop(transcript, i, coefficients, power_2_r, sq) ==
  IF i > Len(transcript)
  THEN coefficients
  ELSE coefficients_loop(
         transcript, i + 1,
         coefficients \o [j \in 1 .. Pow2(i - 1) |->
                            FMul(coefficients[j], FMul(transcript[i], power_2_r))],
         IF sq THEN FMul(power_2_r, power_2_r) ELSE power_2_r, sq)

\* the same without power_2_r *= power_2_r
coefficients_without_squaring(transcript, r_shift) ==
  Interleave(coefficients_loop(transcript, 1, <<1>>, r_shift, FALSE))

polynomial_coefficients_from_transcript(transcript, r_shift) ==
  Interleave(coefficients_loop(transcript, 1, <<1>>, r_shift, TRUE))

\* DensePolynomial::from_coefficients_slice: trailing zero coefficients are dropped
RECURSIVE from_coefficients(_)
from_coefficients(c) ==
  IF c = <<>> \/ c[Len(c)] # 0 THEN c ELSE from_coefficients(SubSeq(c, 1, Len(c) - 1))

\* Vec::resize(len, zero)
resize(c, len) == [i \in 1 .. len |-> IF i <= Len(c) THEN c[i] ELSE 0]

MaxOf(a, b) == IF a >= b THEN a ELSE b

\* DensePolynomial - DensePolynomial
poly_sub(p, q) ==
  from_coefficients([i \in 1 .. MaxOf(Len(p), Len(q)) |->
                       FSub(resize(p, i)[i], resize(q, i)[i])])

\* the coefficients j .. Len(p)-1 of the quotient of p by (X - z), from the top:
\* q[Len(p)-1] = p[Len(p)], q[j] = p[j+1] + z * q[j+1]
RECURSIVE quotient_from(_, _, _)
quotient_from(p, z, j) ==
  IF j = Len(p) - 1
  THEN <<p[Len(p)]>>
  ELSE TheOne({<<FAdd(p[j + 1], FMul(z, rest[1]))>> \o rest
               : rest \in {quotient_from(p, z, j + 1)}})

\* DensePolynomial / (X - z): the quotient of the division by the monic linear
\* polynomial [-z, 1]; the remainder is dropped
poly_div_linear(p, z) ==
  IF Len(p) < 2 THEN <<>> ELSE from_coefficients(quotient_from(p, z, 1))

\* DensePolynomial::evaluate
poly_evaluate(p, z) == SumSeq([i \in 1 .. Len(p) |-> FMul(p[i], FPow(z, i - 1))])

\* the KZG challenge loop: counter_nonce += 1 until from_random_bytes gives a
\* field element (zero included)
RECURSIVE kzg_challenge_loop(_, _, _)
kzg_challenge_loop(d, xs, counter_nonce) ==
  LET x == from_random_bytes(Digest(d, counter_nonce, xs))
  IN IF x # None THEN x[1] ELSE kzg_challenge_loop(d, xs, counter_nonce + 1)

kzg_challenge(d, first, ck_a_final, ck_b_final) ==
  kzg_challenge_loop(d, <<first, ck_a_final, ck_b_final>>, 0)

\* GIPA::prove_with_aux(values, ck): the halving recursion without the input
\* checks; the proof is (r_commitment_steps, r_base), the aux is (r_transcript,
\* ck_base), all in the order recursive_prove pushes them
prove_with_aux(values, ck, d) ==
  recursive_prove(values[1], values[2], ck[1], ck[2], <<ck[3]>>, 0, d)

\* the KZG opening proofs of the two final keys at the point c:
\* (ck_polynomial - eval) / (X - c), committed under the powers of the other group
kzg_opening(powers, polynomial, eval, c, len) ==
  inner_product(powers,
                resize(poly_div_linear(poly_sub(polynomial, from_coefficients(<<eval>>)), c), len))

\* TIPA::prove_with_srs_shift after GIPA::prove_with_aux has returned gipa
prove_final_keys(srs, gipa, r_shift, d) ==
  IF gipa.tag # "Ok" THEN [tag |-> gipa.tag]
  ELSE IF \E i \in 1 .. Len(gipa.transcript) : inverse(gipa.transcript[i]) = None
  THEN [tag |-> "Panic", at |-> "transcript inverse"]
  ELSE IF inverse(r_shift) = None
  THEN [tag |-> "Panic", at |-> "r_shift inverse"]
  ELSE TheOne({
    IF Len(srs.g_alpha_powers) # Len(ck_a_polynomial)
    THEN [tag |-> "Panic", at |-> "assert_eq"]
    ELSE IF gipa.transcript = <<>>
    THEN [tag |-> "Panic", at |-> "transcript first"]
    ELSE TheOne({
      [tag |-> "Ok",
       proof |-> [steps |-> gipa.steps, base |-> gipa.base,
                  final_ck |-> <<gipa.ck_base[1], gipa.ck_base[2]>>,
                  final_ck_proof |->
                    <<kzg_opening(srs.h_beta_powers, ck_a_polynomial,
                        polynomial_evaluation_product_form_from_transcript(
                          transcript_inverse, c, Inv(r_shift)),
                        c, Len(srs.g_alpha_powers)),
                      kzg_opening(srs.g_alpha_powers, ck_b_polynomial,
                        polynomial_evaluation_product_form_from_transcript(
                          gipa.transcript, c, 1),
                        c, Len(srs.g_alpha_powers))>>]]
      : c \in {kzg_challenge(d, gipa.transcript[1], gipa.ck_base[1], gipa.ck_base[2])}})
    : transcript_inverse \in {[i \in 1 .. Len(gipa.transcript) |-> Inv(gipa.transcript[i])]},
      ck_b_polynomial \in
        {from_coefficients(polynomial_coefficients_from_transcript(gipa.transcript, 1))},
      ck_a_polynomial \in
        {from_coefficients(polynomial_coefficients_from_transcript(
           [i \in 1 .. Len(gipa.transcript) |-> Inv(gipa.transcript[i])], Inv(r_shift)))}})

\* TIPA::prove_with_srs_shift(srs, values, ck, r_shift) under the digest d
prove_with_srs_shift(srs, values, ck, r_shift, d) ==
  TheOne({prove_final_keys(srs, gipa, r_shift, d) : gipa \in {prove_with_aux(values, ck, d)}})

\* the Fiat-Shamir loop of the verifier's round: counter_nonce += 1 until the
\* digest gives an invertible field element
RECURSIVE verifier_challenge_loop(_, _, _)
verifier_challenge_loop(d, xs, counter_nonce) ==
  LET x == from_random_bytes(Digest(d, counter_nonce, xs))
  IN IF x # None /\ inverse(x[1]) # None
     THEN x[1]
     ELSE verifier_challenge_loop(d, xs, counter_nonce + 1)

\* the rounds of GIPA::verify_recursive_challenge_transcript, largest halving
\* first: com <- com + c * com_1 + c_inv * com_2 on each of the three parts
RECURSIVE verify_rounds(_, _, _, _, _)
verify_rounds(com, rounds, prev, transcript, d) ==
  IF rounds = <<>>
  THEN [base_com |-> com, transcript |-> Reverse(transcript)]
  ELSE LET c1 == Head(rounds)[1]
           c2 == Head(rounds)[2]
           c == verifier_challenge_loop(d, <<prev>> \o c1 \o c2, 0)
           c_inv == Inv(c)
       IN verify_rounds(
            [i \in 1 .. 3 |-> FAdd(FAdd(mul_helper(c1[i], c), com[i]), mul_helper(c2[i], c_inv))],
            Tail(rounds), c, Append(transcript, c), d)

\* GIPA::verify_recursive_challenge_transcript(com, proof): the folded
\* commitments and the transcript in the order of the prover's r_transcript
verify_recursive_challenge_transcript(com, steps, d) ==
  verify_rounds(com, Reverse(steps), 0, <<>>, d)

\* P::pairing(a, b) == P::pairing(c, e)
pairing_eq(a, b, c, e) == FMul(a, b) = FMul(c, e)

\* the product form evaluated with r_shift where the code passes its inverse
verify_with_srs_shift_no_inverse(v_srs, ck_t, com, proof, r_shift, d) ==
  LET vr == verify_recursive_challenge_transcript(com, proof.steps, d)
      transcript == vr.transcript
  IN IF transcript = <<>> THEN [tag |-> "Panic", at |-> "transcript first"]
     ELSE IF inverse(r_shift) = None THEN [tag |-> "Panic", at |-> "r_shift inverse"]
     ELSE
       LET transcript_inverse == [i \in 1 .. Len(transcript) |-> Inv(transcript[i])]
           c == kzg_challenge(d, transcript[1], proof.final_ck[1], proof.final_ck[2])
           ck_a_polynomial_c_eval ==
             polynomial_evaluation_product_form_from_transcript(transcript_inverse, c, r_shift)
           ck_b_polynomial_c_eval ==
             polynomial_evaluation_product_form_from_transcript(transcript, c, 1)
           ck_a_valid ==
             pairing_eq(v_srs.g, FSub(proof.final_ck[1], FMul(v_srs.h, ck_a_polynomial_c_eval)),
                        FSub(v_srs.g_beta, FMul(v_srs.g, c)), proof.final_ck_proof[1])
           ck_b_valid ==
             pairing_eq(FSub(proof.final_ck[2], FMul(v_srs.g, ck_b_polynomial_c_eval)), v_srs.h,
                        proof.final_ck_proof[2], FSub(v_srs.h_alpha, FMul(v_srs.h, c)))
           t_base == inner_product(<<proof.base[1]>>, <<proof.base[2]>>)
           base_valid ==
             /\ commit_verify(<<proof.final_ck[1]>>, <<proof.base[1]>>, vr.base_com[1])
             /\ commit_verify(<<proof.final_ck[2]>>, <<proof.base[2]>>, vr.base_com[2])
             /\ commit_verify(<<ck_t>>, <<t_base>>, vr.base_com[3])
       IN [tag |-> "Ok", val |-> (ck_a_valid /\ ck_b_valid /\ base_valid)]

\* TIPA::verify_with_srs_shift(v_srs, ck_t, com, proof, r_shift) under the digest d
verify_with_srs_shift(v_srs, ck_t, com, proof, r_shift, d) ==
  LET vr == verify_recursive_challenge_transcript(com, proof.steps, d)
      transcript == vr.transcript
  IN IF \E i \in 1 .. Len(transcript) : inverse(transcript[i]) = None
     THEN [tag |-> "Panic", at |-> "transcript inverse"]
     ELSE IF transcript = <<>> THEN [tag |-> "Panic", at |-> "transcript first"]
     ELSE IF inverse(r_shift) = None THEN [tag |-> "Panic", at |-> "r_shift inverse"]
     ELSE
       LET transcript_inverse == [i \in 1 .. Len(transcript) |-> Inv(transcript[i])]
           c == kzg_challenge(d, transcript[1], proof.final_ck[1], proof.final_ck[2])
           ck_a_polynomial_c_eval ==
             polynomial_evaluation_product_form_from_transcript(transcript_inverse, c, Inv(r_shift))
           ck_b_polynomial_c_eval ==
             polynomial_evaluation_product_form_from_transcript(transcript, c, 1)
           ck_a_valid ==
             pairing_eq(v_srs.g, FSub(proof.final_ck[1], FMul(v_srs.h, ck_a_polynomial_c_eval)),
                        FSub(v_srs.g_beta, FMul(v_srs.g, c)), proof.final_ck_proof[1])
           ck_b_valid ==
             pairing_eq(FSub(proof.final_ck[2], FMul(v_srs.g, ck_b_polynomial_c_eval)), v_srs.h,
                        proof.final_ck_proof[2], FSub(v_srs.h_alpha, FMul(v_srs.h, c)))
           t_base == inner_product(<<proof.base[1]>>, <<proof.base[2]>>)
           base_valid ==
             /\ commit_verify(<<proof.final_ck[1]>>, <<proof.base[1]>>, vr.base_com[1])
             /\ commit_verify(<<proof.final_ck[2]>>, <<proof.base[2]>>, vr.base_com[2])
             /\ commit_verify(<<ck_t>>, <<t_base>>, vr.base_com[3])
       IN [tag |-> "Ok", val |-> (ck_a_valid /\ ck_b_valid /\ base_valid)]

(***************************** TIPA with a structured scalar message *******)
\* the left-key half of the TIPA prover after GIPA::prove_with_aux has returned
\* gipa: the right vector is (1, x, x^2, ...), so the folded right message and
\* the KZG proof of the right key are not part of the proof
ssm_prove_final_key(srs, gipa, d) ==
  IF gipa.tag # "Ok" THEN [tag |-> gipa.tag]
  ELSE IF gipa.transcript = <<>>
  THEN [tag |-> "Panic", at |-> "transcript first"]
  ELSE TheOne({
    [tag |-> "Ok",
     proof |-> [steps |-> gipa.steps, base |-> gipa.base[1],
                final_ck |-> gipa.ck_base[1],
                final_ck_proof |->
                  kzg_opening(srs.h_beta_powers, ck_a_polynomial,
                    polynomial_evaluation_product_form_from_transcript(transcript_inverse, c, 1),
                    c, Len(srs.h_beta_powers))]]
    : transcript_inverse \in {[i \in 1 .. Len(gipa.transcript) |-> Inv(gipa.transcript[i])]},
      ck_a_polynomial \in
        {from_coefficients(polynomial_coefficients_from_transcript(
           [i \in 1 .. Len(gipa.transcript) |-> Inv(gipa.transcript[i])], 1))},
      c \in {kzg_challenge_loop(d, <<gipa.transcript[1], gipa.ck_base[1]>>, 0)}})

\* TIPA::prove_with_structured_scalar_message(srs, values, ck) under the digest d
prove_with_structured_scalar_message(srs, values, ck, d) ==
  TheOne({ssm_prove_final_key(srs, gipa, d) : gipa \in {prove_with_aux(values, ck, d)}})

\* the checks of the structured-scalar-message verifier once the rounds have
\* been replayed into vr: the KZG opening of the left key, and the base case
\* with b* = prod (1 + c_i^(-1) * scalar_b^(2^i)) computed from the transcript
ssm_verify_final_key(v_srs, ck_t, vr, scalar_b, proof, d) ==
  IF vr.transcript = <<>> THEN [tag |-> "Panic", at |-> "transcript first"]
  ELSE TheOne({
    [tag |-> "Ok",
     val |->
       /\ pairing_eq(v_srs.g,
                     FSub(proof.final_ck,
                          FMul(v_srs.h, polynomial_evaluation_product_form_from_transcript(
                                          transcript_inverse, c, 1))),
                     FSub(v_srs.g_beta, FMul(v_srs.g, c)), proof.final_ck_proof)
       /\ commit_verify(<<proof.final_ck>>, <<proof.base>>, vr.base_com[1])
       /\ commit_verify(<<ck_t>>,
                        <<inner_product(<<proof.base>>,
                                        <<product_form_loop(transcript_inverse, 1, scalar_b, <<>>)>>)>>,
                        vr.base_com[3])]
    : transcript_inverse \in {[i \in 1 .. Len(vr.transcript) |-> Inv(vr.transcript[i])]},
      c \in {kzg_challenge_loop(d, <<vr.transcript[1], proof.final_ck>>, 0)}})

\* TIPA::verify_with_structured_scalar_message(v_srs, ck_t, com, scalar_b, proof):
\* com is (left commitment, inner-product commitment); the right commitment is
\* not known to the verifier and its fold is not used
verify_with_structured_scalar_message(v_srs, ck_t, com, scalar_b, proof, d) ==
  TheOne({ssm_verify_final_key(v_srs, ck_t, vr, scalar_b, proof, d)
          : vr \in {verify_recursive_challenge_transcript(<<com[1], 0, com[2]>>, proof.steps, d)}})

(***************************** polynomial commitments **********************)
\* (ip_proofs/src/applications/poly_commit.rs)

\* DensePolynomial::degree: 0 for the zero polynomial
degree(p) == IF p = <<>> THEN 0 ELSE Len(p) - 1

\* KZG::commit(powers, polynomial); None is the failing assert!
KZG_commit(powers, polynomial) ==
  IF Len(powers) < degree(polynomial) + 1 THEN None
  ELSE Some(inner_product(powers, resize(polynomial, Len(powers))))

\* KZG::open(powers, polynomial, point): the quotient by (X - point), the
\* remainder ignored; None is the failing assert!
KZG_open(powers, polynomial, point) ==
  IF Len(powers) < degree(polynomial) + 1 THEN None
  ELSE Some(inner_product(powers, resize(poly_div_linear(polynomial, point), Len(powers))))

\* the verification equation with h_alpha alone on the right, the point left out
KZG_verify_without_point(v_srs, com, point, eval, proof) ==
  pairing_eq(FSub(com, FMul(v_srs.g, eval)), v_srs.h, proof, v_srs.h_alpha)

\* KZG::verify(v_srs, com, point, eval, proof)
KZG_verify(v_srs, com, point, eval, proof) ==
  pairing_eq(FSub(com, FMul(v_srs.g, eval)), v_srs.h,
             proof, FSub(v_srs.h_alpha, FMul(v_srs.h, point)))

\* cur = one; n times: push cur; cur *= x
powers_of(x, n) == [i \in 1 .. n |-> FPow(x, i - 1)]

\* the powers of x starting at x instead of one
evaluate_from_x(y_polynomials, point) ==
  SumSeq([i \in 1 .. Len(y_polynomials) |->
            FMul(FPow(point[1], i), poly_evaluate(y_polynomials[i], point[2]))])

\* BivariatePolynomial::evaluate(point)
evaluate(y_polynomials, point) ==
  SumSeq([i \in 1 .. Len(y_polynomials) |->
            FMul(powers_of(point[1], Len(y_polynomials))[i],
                 poly_evaluate(y_polynomials[i], point[2]))])

\* the placeholder key of the IdentityCommitment, whose commit(key, m) is m
HomomorphicPlaceholderValue == 1

\* the slice cut down to the powers the SRS has, instead of panicking
BPC_setup_clamped(x_degree, y_degree, alpha, beta) ==
  TheOne({
    [tag |-> "Ok", srs |-> srs,
     kzg_srs |-> SubSeq(srs.g_alpha_powers, 1,
                        IF y_degree + 1 > Len(srs.g_alpha_powers)
                        THEN Len(srs.g_alpha_powers) ELSE y_degree + 1)]
    : srs \in {TIPA_setup(x_degree + 1, alpha, beta)}})

\* BivariatePolynomialCommitment::setup(rng, x_degree, y_degree): the slice
\* g_alpha_powers[0..y_degree + 1] panics when the SRS has fewer powers
BPC_setup(x_degree, y_degree, alpha, beta) ==
  TheOne({
    IF y_degree + 1 > Len(srs.g_alpha_powers)
    THEN [tag |-> "Panic", at |-> "kzg_srs slice"]
    ELSE [tag |-> "Ok", srs |-> srs,
          kzg_srs |-> SubSeq(srs.g_alpha_powers, 1, y_degree + 1)]
    : srs \in {TIPA_setup(x_degree + 1, alpha, beta)}})

\* .chain(zero polynomials).take(n)
PadRows(y_polynomials, n) ==
  [i \in 1 .. n |-> IF i <= Len(y_polynomials) THEN y_polynomials[i] ELSE <<>>]

\* BivariatePolynomialCommitment::commit(srs, bivariate_polynomial)
BPC_commit(srs, kzg_srs, y_polynomials) ==
  TheOne({
    IF Len(ck) < Len(y_polynomials)
    THEN [tag |-> "Panic", at |-> "assert ck.len()"]
    ELSE TheOne({
      IF \E i \in 1 .. Len(coms) : coms[i] = None
      THEN [tag |-> "Panic", at |-> "assert powers.len()"]
      ELSE [tag |-> "Ok",
            com |-> commit(ck, [i \in 1 .. Len(coms) |-> coms[i][1]]),
            y_polynomial_coms |-> [i \in 1 .. Len(coms) |-> coms[i][1]]]
      : coms \in {[i \in 1 .. Len(ck) |->
                     KZG_commit(kzg_srs, PadRows(y_polynomials, Len(ck))[i])]}})
    : ck \in {get_commitment_keys(srs)[1]}})

\* y_eval_coeffs of open: coefficient j of P(x, Y), over the rows padded to the
\* number of keys and resized to the length of kzg_srs
y_eval_coeffs(y_polynomials, powers_of_x, rows, len) ==
  [j \in 1 .. len |->
     SumSeq([i \in 1 .. rows |->
               FMul(powers_of_x[i], resize(PadRows(y_polynomials, rows)[i], len)[j])])]

\* BivariatePolynomialCommitment::open(srs, bivariate_polynomial,
\* y_polynomial_comms, point) under the digest d
BPC_open(srs, kzg_srs, y_polynomials, y_polynomial_comms, point, d) ==
  TheOne({
    IF Len(ck[1]) < Len(y_polynomials)
    THEN [tag |-> "Panic", at |-> "assert ck_1.len()"]
    ELSE TheOne({
      TheOne({
        IF ip_proof.tag # "Ok" THEN ip_proof
        ELSE IF kzg_proof = None THEN [tag |-> "Panic", at |-> "assert powers.len()"]
        ELSE [tag |-> "Ok",
              proof |-> [ip_proof |-> ip_proof.proof,
                         y_eval_comm |-> inner_product(kzg_srs, coeffs),
                         kzg_proof |-> kzg_proof[1]]]
        : ip_proof \in {prove_with_structured_scalar_message(
                          srs, <<y_polynomial_comms, powers_of(point[1], Len(ck[1]))>>,
                          <<ck[1], ck[2], HomomorphicPlaceholderValue>>, d)},
          kzg_proof \in {KZG_open(kzg_srs, from_coefficients(coeffs), point[2])}})
      : coeffs \in {y_eval_coeffs(y_polynomials, powers_of(point[1], Len(ck[1])),
                                  Len(ck[1]), Len(kzg_srs))}})
    : ck \in {get_commitment_keys(srs)}})

\* BivariatePolynomialCommitment::verify(v_srs, com, point, eval, proof)
BPC_verify(v_srs, com, point, eval, proof, d) ==
  TheOne({
    IF ip_proof_valid.tag # "Ok" THEN ip_proof_valid
    ELSE [tag |-> "Ok",
          val |-> /\ ip_proof_valid.val
                  /\ KZG_verify(v_srs, proof.y_eval_comm, point[2], eval, proof.kzg_proof)]
    : ip_proof_valid \in {verify_with_structured_scalar_message(
                            v_srs, HomomorphicPlaceholderValue,
                            <<com, proof.y_eval_comm>>, point[1], proof.ip_proof, d)}})

\* (n as f64).sqrt().ceil() as usize
sqrt_ceil(n) == CHOOSE s \in 0 .. n : s * s >= n /\ \A t \in 0 .. (s - 1) : t * t < n

\* usize::next_power_of_two: the least power of two >= n (1 for n = 0)
next_power_of_two(n) ==
  CHOOSE q \in 1 .. (2 * n + 1) :
    /\ IsPowerOfTwo(q) /\ q >= n
    /\ \A t \in 1 .. (q - 1) : ~(IsPowerOfTwo(t) /\ t >= n)

\* the square root taken of univariate_degree instead of univariate_degree + 1
bivariate_degrees_of_degree(univariate_degree) ==
  next_power_of_two(sqrt_ceil(univariate_degree)) - 1

\* UnivariatePolynomialCommitment::bivariate_degrees
bivariate_degrees(univariate_degree) ==
  next_power_of_two(sqrt_ceil(univariate_degree + 1)) - 1

\* UnivariatePolynomialCommitment::bivariate_form: (bivariate_degree + 1)^2
\* coefficients, zeros after the last, in rows of bivariate_degree + 1
bivariate_form(bivariate_degree, polynomial) ==
  [i \in 1 .. (bivariate_degree + 1) |->
     from_coefficients(
       [j \in 1 .. (bivariate_degree + 1) |->
          IF (i - 1) * (bivariate_degree + 1) + j <= Len(polynomial)
          THEN polynomial[(i - 1) * (bivariate_degree + 1) + j]
          ELSE 0])]

\* UnivariatePolynomialCommitment::setup(rng, degree)
UPC_setup(univariate_degree, alpha, beta) ==
  BPC_setup(bivariate_degrees(univariate_degree), bivariate_degrees(univariate_degree),
            alpha, beta)

\* UnivariatePolynomialCommitment::commit: bivariate_degree = srs.1.len() - 1
UPC_commit(srs, kzg_srs, polynomial) ==
  BPC_commit(srs, kzg_srs, bivariate_form(Len(kzg_srs) - 1, polynomial))

\* the point (x, y) of UnivariatePolynomialCommitment::open and verify:
\* y = point, x = point.pow(bivariate_degree + 1)
UPC_point(bivariate_degree, point) == <<FPow(point, bivariate_degree + 1), point>>

\* UnivariatePolynomialCommitment::open
UPC_open(srs, kzg_srs, polynomial, y_polynomial_comms, point, d) ==
  BPC_open(srs, kzg_srs, bivariate_form(Len(kzg_srs) - 1, polynomial),
           y_polynomial_comms, UPC_point(Len(kzg_srs) - 1, point), d)

\* UnivariatePolynomialCommitment::verify
UPC_verify(v_srs, bivariate_degree, com, point, eval, proof, d) ==
  BPC_verify(v_srs, com, UPC_point(bivariate_degree, point), eval, proof, d)

(***************************** inputs **************************************)
Seeds == 0 .. MaxSeed

Digests == 0 .. MaxDigest

\* a message vector of length n drawn from a seed
VecFrom(s, n) == [i \in 1 .. n |-> (s * s + (s + 1) * i + i * i * i) % P]

\* a key vector of length n of independent generators (DoublyHomomorphicCommitment::setup)
KeysFrom(s, n) == [i \in 1 .. n |-> (1 + s + 2 * i + s * i * i) % P]

(***************************** GIPA::prove as a system *********************)
\* the caller of GIPA::prove holds two vectors of one length n, keys of that
\* length, an announced inner product t (right, or off by dt) and three
\* commitments (right, or off by da, db, dc)
InitGIPA ==
  /\ phase = "start"
  /\ out = [tag |-> "none"]
  /\ ver = [tag |-> "none"]
  /\ \E n \in 0 .. MaxLen, sa \in Seeds, sb \in Seeds, kt \in 1 .. 2,
        dt \in 0 .. 1, da \in 0 .. 1, db \in 0 .. 1, dc \in 0 .. 1, d \in Digests :
       LET m_a == VecFrom(sa, n)
           m_b == VecFrom(sb + 1, n)
           ck_a == KeysFrom(sa + sb, n)
           ck_b == KeysFrom(sb + 2, n)
           t == FAdd(inner_product(m_a, m_b), dt)
       IN inp = [m_a |-> m_a, m_b |-> m_b, t |-> t,
                 ck_a |-> ck_a, ck_b |-> ck_b, ck_t |-> kt,
                 com_a |-> FAdd(commit(ck_a, m_a), da),
                 com_b |-> FAdd(commit(ck_b, m_b), db),
                 com_t |-> FAdd(commit(<<kt>>, <<t>>), dc),
                 d |-> d]

\* one call of GIPA::prove
GipaProve ==
  /\ phase = "start"
  /\ phase' = "proved"
  /\ out' = GIPA_prove(<<inp.m_a, inp.m_b, inp.t>>, <<inp.ck_a, inp.ck_b, inp.ck_t>>,
                       <<inp.com_a, inp.com_b, inp.com_t>>, inp.d)
  /\ UNCHANGED <<inp, ver>>

NextGIPA == GipaProve

SpecGIPA == InitGIPA /\ [][NextGIPA]_vars

(***************************** TIPA as a system ****************************)
Trapdoors == 0 .. MaxTrap

Shifts == 0 .. MaxShift

\* structured_scalar_power(n, r): (1, r, r^2, ...)
structured_scalar_power(n, r) == [i \in 1 .. n |-> FPow(r, i - 1)]

\* the caller of the shifted prover: m_a_r[i] = r^i * m_a[i] and
\* ck_a_r[i] = r^(-i) * ck_a[i]; with r = 0 nothing can be shifted and the
\* vectors are handed over as they are
ShiftMessages(m_a, r) ==
  IF r = 0 THEN m_a
  ELSE [i \in 1 .. Len(m_a) |-> FMul(m_a[i], structured_scalar_power(Len(m_a), r)[i])]

ShiftKeys(ck_a, r) ==
  IF r = 0 THEN ck_a
  ELSE [i \in 1 .. Len(ck_a) |-> FMul(ck_a[i], Inv(structured_scalar_power(Len(ck_a), r)[i]))]

\* setup(size) for size = n = 2^k, the commitment keys and the verifier key
\* taken from the SRS, two message vectors, a shift r, and the commitments
\* of the vectors as the tests compute them
Init ==
  /\ phase = "start"
  /\ out = [tag |-> "none"]
  /\ ver = [tag |-> "none"]
  /\ \E k \in 0 .. MaxLog, alpha \in Trapdoors, beta \in Trapdoors,
        sa \in Seeds, sb \in Seeds, r \in Shifts, d \in Digests :
       LET n == Pow2(k)
           srs == TIPA_setup(n, alpha, beta)
           ck == get_commitment_keys(srs)
           ck_t == 1 + ((sa + sb) % 2)
           m_a == VecFrom(sa, n)
           m_b == VecFrom(sb + 1, n)
           m_a_r == ShiftMessages(m_a, r)
           ck_a_r == ShiftKeys(ck[1], r)
           t == inner_product(m_a_r, m_b)
       IN inp = [size |-> n, alpha |-> alpha, beta |-> beta, srs |-> srs,
                 v_srs |-> get_verifier_key(srs),
                 ck_a |-> ck[1], ck_b |-> ck[2], ck_t |-> ck_t,
                 m_a |-> m_a, m_b |-> m_b, r |-> r,
                 m_a_r |-> m_a_r, ck_a_r |-> ck_a_r, t |-> t,
                 com_a |-> commit(ck[1], m_a),
                 com_b |-> commit(ck[2], m_b),
                 com_t |-> commit(<<ck_t>>, <<t>>),
                 d |-> d]

\* one call of TIPA::prove_with_srs_shift (TIPA::prove is the call with r = 1)
TipaProve ==
  /\ phase = "start"
  /\ phase' = "proved"
  /\ \E res \in {prove_with_srs_shift(inp.srs, <<inp.m_a_r, inp.m_b>>,
                                       <<inp.ck_a_r, inp.ck_b, inp.ck_t>>, inp.r, inp.d)} :
       out' = IF res.tag = "Ok"
              THEN [tag |-> "Ok", proof |-> res.proof, honest |-> TRUE]
              ELSE res
  /\ UNCHANGED <<inp, ver>>

\* the proofs a verifier may be handed in place of an honest one
Tampered(proof) ==
  {[proof EXCEPT !.steps = <<>>],
   [proof EXCEPT !.steps = SubSeq(@, 1, Len(@) - 1)],
   [proof EXCEPT !.base = <<FAdd(@[1], 1), @[2]>>],
   [proof EXCEPT !.final_ck = <<@[1], FAdd(@[2], 1)>>],
   [proof EXCEPT !.final_ck_proof = <<FAdd(@[1], 1), @[2]>>]}

\* the proof is replaced on its way to the verifier
Tamper ==
  /\ phase = "proved"
  /\ out.tag = "Ok"
  /\ phase' = "tampered"
  /\ \E q \in Tampered(out.proof) \ {out.proof} :
       out' = [tag |-> "Ok", proof |-> q, honest |-> FALSE]
  /\ UNCHANGED <<inp, ver>>

\* one call of TIPA::verify_with_srs_shift with a shift r_shift of the
\* verifier's choice (TIPA::verify is the call with r_shift = 1)
Verify ==
  /\ phase \in {"proved", "tampered"}
  /\ out.tag = "Ok"
  /\ phase' = "verified"
  /\ \E r_shift \in Shifts :
       ver' = [r |-> r_shift,
               res |-> verify_with_srs_shift(inp.v_srs, inp.ck_t,
                                             <<inp.com_a, inp.com_b, inp.com_t>>,
                                             out.proof, r_shift, inp.d)]
  /\ UNCHANGED <<inp, out>>

Next == TipaProve \/ Tamper \/ Verify

Spec == Init /\ [][Next]_vars

(***************************** polynomial commitments as a system **********)
Points == 0 .. MaxPoint

\* a caller of the bivariate scheme: degrees for setup, a polynomial of rows
\* Y-polynomials with y_degree + 1 coefficients each (rows is x_degree + 1, or
\* one less), and a point (x, y)
InitBivariate ==
  \E x_degree \in 0 .. MaxXDegree, y_degree \in 0 .. MaxYDegree,
     alpha \in Trapdoors, beta \in Trapdoors, s \in Seeds,
     x \in Points, y \in Points, d \in Digests :
    \E rows \in {x_degree + 1} \cup (IF x_degree >= 1 THEN {x_degree} ELSE {}) :
      inp = [kind |-> "bivariate", x_degree |-> x_degree, y_degree |-> y_degree,
             alpha |-> alpha, beta |-> beta,
             polynomial |-> [i \in 1 .. rows |->
                               from_coefficients(VecFrom(s + i, y_degree + 1))],
             point |-> <<x, y>>, d |-> d]

\* a caller of the univariate scheme: a degree for setup, a polynomial of at
\* most that degree, and a point z
InitUnivariate ==
  \E degree_ \in 0 .. MaxDegree, alpha \in Trapdoors, beta \in Trapdoors,
     s \in Seeds, z \in Points, d \in Digests :
    inp = [kind |-> "univariate", degree |-> degree_,
           alpha |-> alpha, beta |-> beta,
           polynomial |-> from_coefficients(VecFrom(s, degree_ + 1)),
           point |-> z, d |-> d]

InitPoly ==
  /\ phase = "start"
  /\ out = [tag |-> "none"]
  /\ ver = [tag |-> "none"]
  /\ (InitBivariate \/ InitUnivariate)

\* setup of the scheme the caller uses
PolySetup ==
  /\ phase = "start"
  /\ phase' = "setup"
  /\ out' = IF inp.kind = "bivariate"
            THEN BPC_setup(inp.x_degree, inp.y_degree, inp.alpha, inp.beta)
            ELSE UPC_setup(inp.degree, inp.alpha, inp.beta)
  /\ UNCHANGED <<inp, ver>>

\* commit to the caller's polynomial
PolyCommit ==
  /\ phase = "setup"
  /\ out.tag = "Ok"
  /\ phase' = "committed"
  /\ \E res \in {IF inp.kind = "bivariate"
                 THEN BPC_commit(out.srs, out.kzg_srs, inp.polynomial)
                 ELSE UPC_commit(out.srs, out.kzg_srs, inp.polynomial)} :
       out' = IF res.tag # "Ok" THEN res
              ELSE [tag |-> "Ok", srs |-> out.srs, kzg_srs |-> out.kzg_srs,
                    com |-> res.com, y_polynomial_coms |-> res.y_polynomial_coms]
  /\ UNCHANGED <<inp, ver>>

\* open the commitment at the caller's point
PolyOpen ==
  /\ phase = "committed"
  /\ out.tag = "Ok"
  /\ phase' = "opened"
  /\ \E res \in {IF inp.kind = "bivariate"
                 THEN BPC_open(out.srs, out.kzg_srs, inp.polynomial,
                               out.y_polynomial_coms, inp.point, inp.d)
                 ELSE UPC_open(out.srs, out.kzg_srs, inp.polynomial,
                               out.y_polynomial_coms, inp.point, inp.d)} :
       out' = IF res.tag # "Ok" THEN res
              ELSE [tag |-> "Ok", srs |-> out.srs, kzg_srs |-> out.kzg_srs,
                    com |-> out.com, proof |-> res.proof]
  /\ UNCHANGED <<inp, ver>>

\* verify the opening against the evaluation of the polynomial at the point,
\* as the tests do: the univariate caller passes the bivariate degree of setup
PolyVerify ==
  /\ phase = "opened"
  /\ out.tag = "Ok"
  /\ phase' = "verified"
  /\ ver' = IF inp.kind = "bivariate"
            THEN [eval |-> evaluate(inp.polynomial, inp.point),
                  res |-> BPC_verify(get_verifier_key(out.srs), out.com, inp.point,
                                     evaluate(inp.polynomial, inp.point), out.proof, inp.d)]
            ELSE [eval |-> poly_evaluate(inp.polynomial, inp.point),
                  res |-> UPC_verify(get_verifier_key(out.srs), bivariate_degrees(inp.degree),
                                     out.com, inp.point,
                                     poly_evaluate(inp.polynomial, inp.point), out.proof, inp.d)]
  /\ UNCHANGED <<inp, out>>

NextPoly == PolySetup \/ PolyCommit \/ PolyOpen \/ PolyVerify

SpecPoly == InitPoly /\ [][NextPoly]_vars

(***************************** claims on GIPA::prove ***********************)
\* the four checks of GIPA::prove, stated on the caller's inputs
TOk == inp.t = inner_product(inp.m_a, inp.m_b)

ComAOk == inp.com_a = commit(inp.ck_a, inp.m_a)

ComBOk == inp.com_b = commit(inp.ck_b, inp.m_b)

ComTOk == inp.com_t = commit(<<inp.ck_t>>, <<inp.t>>)

Proved == phase = "proved"

\* C2 as stated: a length that is no power of two (0 included) gives
\* MessageLengthInvalid whatever inner product and commitments come with it
C2_AnyInput_MessageLengthInvalid ==
  (Proved /\ ~IsPowerOfTwo(Len(inp.m_a))) => out.tag = "MessageLengthInvalid"

\* C2 amended: a length that is no power of two gives MessageLengthInvalid when the
\* announced inner product equals <a,b> (whatever the commitments), and
\* InnerProductInvalid when it does not: the inner product is checked first
C2_LengthCheckAfterInnerProduct ==
  (Proved /\ ~IsPowerOfTwo(Len(inp.m_a))) =>
     /\ TOk => out.tag = "MessageLengthInvalid"
     /\ ~TOk => out.tag = "InnerProductInvalid"

\* C2 witness: length 3, right inner product, a wrong commitment, MessageLengthInvalid
C2_Witness ==
  /\ Proved /\ Len(inp.m_a) = 3 /\ TOk /\ ~ComAOk
  /\ out.tag = "MessageLengthInvalid"

\* C3: on a power-of-two length, any one failing check gives InnerProductInvalid
\* and no proof; a proof is returned only when all four checks hold
C3_EagerValidation ==
  (Proved /\ IsPowerOfTwo(Len(inp.m_a))) =>
     /\ (~TOk \/ ~ComAOk \/ ~ComBOk \/ ~ComTOk) =>
          (out.tag = "InnerProductInvalid" /\ DOMAIN out = {"tag"})
     /\ out.tag = "Ok" => (TOk /\ ComAOk /\ ComBOk /\ ComTOk)

\* C3 witness: length 4, only the right commitment is wrong, the call is refused
C3_Witness ==
  /\ Proved /\ Len(inp.m_a) = 4 /\ TOk /\ ComAOk /\ ~ComBOk /\ ComTOk
  /\ out.tag = "InnerProductInvalid"

\* the inputs of round i+1: the caller's vectors and keys folded with the first
\* i challenges of cs
RECURSIVE FoldTo(_, _)
FoldTo(cs, i) ==
  IF i = 0
  THEN [m_a |-> inp.m_a, m_b |-> inp.m_b, ck_a |-> inp.ck_a, ck_b |-> inp.ck_b]
  ELSE LET st == FoldTo(cs, i - 1)
       IN [m_a |-> m_a_recurse(st.m_a, cs[i]), m_b |-> m_b_recurse(st.m_b, Inv(cs[i])),
           ck_a |-> ck_a_recurse(st.ck_a, Inv(cs[i])), ck_b |-> ck_b_recurse(st.ck_b, cs[i])]

\* C10: for n = 2^k the proof has k round records and k challenges, and element
\* i of both lists is the one of the i-th halving: the record is the pair of
\* cross commitments of the vectors of length n / 2^(i-1), the challenge the
\* one hashed from that record
C10_RoundsInHalvingOrder ==
  (Proved /\ out.tag = "Ok") =>
     LET n == Len(inp.m_a)
         k == Len(out.steps)
     IN /\ Pow2(k) = n
        /\ Len(out.transcript) = k
        /\ \A i \in 1 .. k :
             LET st == FoldTo(out.transcript, i - 1)
                 c1 == com_1(st.m_a, st.m_b, st.ck_a, st.ck_b, <<inp.ck_t>>)
                 c2 == com_2(st.m_a, st.m_b, st.ck_a, st.ck_b, <<inp.ck_t>>)
                 prev == IF i = 1 THEN 0 ELSE out.transcript[i - 1]
             IN /\ Len(st.m_a) * Pow2(i - 1) = n
                /\ out.steps[i] = <<c1, c2>>
                /\ gipa_challenge(inp.d, prev, c1, c2) = Some(<<out.transcript[i], Inv(out.transcript[i])>>)

\* C10 witness: a proof for length 8 whose three round records differ
C10_Witness ==
  /\ Proved /\ out.tag = "Ok" /\ Len(inp.m_a) = 8
  /\ Len(out.steps) = 3
  /\ out.steps[1] # out.steps[3]
  /\ out.transcript[1] # out.transcript[3]

(***************************** claims on TIPA ******************************)
Verified == phase = "verified"

Accepts == ver.res = [tag |-> "Ok", val |-> TRUE]

\* the proof handed to the verifier is the one the prover returned
Honest == out.tag = "Ok" /\ out.honest

C4_VerifierNeverPanics == Verified => ver.res.tag = "Ok"

C6_ShiftMismatchRejected ==
  (Verified /\ Honest /\ ver.r # inp.r) => ver.res = [tag |-> "Ok", val |-> FALSE]

\* C9: setup(n) gives 2n-1 powers alpha^i g and beta^i h, the commitment keys
\* have length n with ck_L[i] = beta^(2i) h and ck_R[i] = alpha^(2i) g, and the
\* verifier key is (g, h, beta g, alpha h)
C9_SrsLayout ==
  (inp.size >= 1) =>
    /\ Len(inp.srs.g_alpha_powers) = 2 * inp.size - 1
    /\ Len(inp.srs.h_beta_powers) = 2 * inp.size - 1
    /\ \A i \in 0 .. (2 * inp.size - 2) :
         /\ inp.srs.g_alpha_powers[i + 1] = FPow(inp.alpha, i)
         /\ inp.srs.h_beta_powers[i + 1] = FPow(inp.beta, i)
    /\ Len(inp.ck_a) = inp.size
    /\ Len(inp.ck_b) = inp.size
    /\ \A i \in 0 .. (inp.size - 1) :
         /\ inp.ck_a[i + 1] = FPow(inp.beta, 2 * i)
         /\ inp.ck_b[i + 1] = FPow(inp.alpha, 2 * i)
    /\ inp.v_srs = [g |-> 1, h |-> 1, g_beta |-> inp.beta, h_alpha |-> inp.alpha]

\* C9 witness: setup(4) with alpha = 2, beta = 1: seven powers, ck_R = (1, 4, 2, 1)
C9_Witness ==
  /\ inp.size = 4 /\ inp.alpha = 2 /\ inp.beta = 1
  /\ Len(inp.srs.g_alpha_powers) = 7
  /\ inp.ck_b = <<1, 4, 2, 1>>
  /\ phase = "proved"

(***************************** claims on the polynomial commitments ********)
PolyAccepts == phase = "verified" /\ ver.res = [tag |-> "Ok", val |-> TRUE]

\* no step of the round trip has failed; a Fiat-Shamir loop of the prover that
\* never leaves is no failure of the round trip
PolyNoFailure == phase # "start" => out.tag \in {"Ok", "Diverges"}

C8_UnivariateReduction ==
  (inp.kind = "univariate") =>
    LET b == bivariate_degrees(inp.degree) + 1
        form == bivariate_form(b - 1, inp.polynomial)
    IN /\ IsPowerOfTwo(b)
       /\ b * b >= inp.degree + 1
       /\ Len(form) = b
       /\ \A i \in 1 .. b : Len(form[i]) <= b
       /\ \A z \in F : evaluate(form, <<FPow(z, b), z>>) = poly_evaluate(inp.polynomial, z)
       /\ (phase # "start" /\ out.tag = "Ok") =>
            /\ Len(out.kzg_srs) = b
            /\ UPC_point(Len(out.kzg_srs) - 1, inp.point) = <<FPow(inp.point, b), inp.point>>
            /\ UPC_point(bivariate_degrees(inp.degree), inp.point) = <<FPow(inp.point, b), inp.point>>

\* C8 witness: degree 8 (b = 4) with nine coefficients, the last not zero,
\* opened at z = 2 and accepted on P(z)
C8_Witness ==
  /\ inp.kind = "univariate" /\ inp.degree = 8
  /\ Len(inp.polynomial) = 9
  /\ bivariate_degrees(inp.degree) = 3
  /\ inp.point = 2
  /\ PolyAccepts /\ ver.eval = poly_evaluate(inp.polynomial, 2)

(***************************** claims on the GIPA rounds *******************)
\* C11 as stated: a rejected digest makes the round's loop retry with the next
\* counter, so the loop leaves and GIPA::prove returns (every digest input has
\* a counter whose digest is an invertible scalar)
C11_ProveTerminates == Proved => out.tag # "Diverges"

\* C12: every challenge in the transcript GIPA::prove returns is a nonzero
\* field element with an inverse, so x.inverse().unwrap() on a transcript
\* entry, as the TIPA prover and verifier do, never fails
C12_TranscriptInvertible ==
  (Proved /\ out.tag = "Ok") =>
    \A i \in 1 .. Len(out.transcript) :
      /\ out.transcript[i] \in F \ {0}
      /\ inverse(out.transcript[i]) # None
      /\ FMul(out.transcript[i], Inv(out.transcript[i])) = 1

\* C12 witness: a proof for length 8 with its three challenges
C12_Witness ==
  /\ Proved /\ out.tag = "Ok" /\ Len(inp.m_a) = 8
  /\ Len(out.transcript) = 3
  /\ \A i \in 1 .. 3 : out.transcript[i] # 0

(***************************** claims on the bivariate setup ***************)
\* C13: BivariatePolynomialCommitment::setup(x_degree, y_degree) returns a KZG
\* key of exactly y_degree + 1 powers (the first powers of alpha) exactly when
\* x_degree >= ceil(y_degree / 2); otherwise it panics on the slice of the
\* 2 * x_degree + 1 powers and returns no key, shortened or not
C13_SetupPrecondition ==
  (inp.kind = "bivariate" /\ phase = "setup") =>
    IF inp.x_degree >= (inp.y_degree + 1) \div 2
    THEN /\ out.tag = "Ok"
         /\ Len(out.srs.g_alpha_powers) = 2 * inp.x_degree + 1
         /\ Len(out.kzg_srs) = inp.y_degree + 1
         /\ \A i \in 0 .. inp.y_degree : out.kzg_srs[i + 1] = FPow(inp.alpha, i)
    ELSE out = [tag |-> "Panic", at |-> "kzg_srs slice"]

\* C13 witness: setup(1, 3) asks for four of the three powers and panics
C13_Witness ==
  /\ inp.kind = "bivariate" /\ phase = "setup"
  /\ inp.x_degree = 1 /\ inp.y_degree = 3
  /\ out.tag = "Panic"

(***************************** claims on TIPA at length one ****************)
\* C14 as stated: for n = 1 and an SRS of setup(1), TIPA::prove returns a proof
\* with zero round records and base (a[0], b[0]), and TIPA::verify accepts it
C14_LengthOneSupported ==
  (inp.size = 1 /\ inp.r = 1) =>
    /\ phase = "proved" =>
         /\ out.tag = "Ok"
         /\ out.proof.steps = <<>>
         /\ out.proof.base = <<inp.m_a[1], inp.m_b[1]>>
    /\ (Verified /\ Honest /\ ver.r = 1) => Accepts

(***************************** PedersenCommitment as a system **************)
\* element-wise sum of two vectors of one length
VecAdd(u, v) == [i \in 1 .. Len(u) |-> FAdd(u[i], v[i])]

\* every entry of v multiplied by the scalar c
VecScale(c, v) == [i \in 1 .. Len(v) |-> FMul(c, v[i])]

\* a caller holding two key vectors, two message vectors, all of one length
\* n, and a scalar c
InitCommit ==
  /\ phase = "start"
  /\ out = [tag |-> "none"]
  /\ ver = [tag |-> "none"]
  /\ \E n \in 0 .. MaxLen, sk \in Seeds, sm \in Seeds, c \in F :
       inp = [k |-> KeysFrom(sk, n), k2 |-> KeysFrom(sk + 3, n),
              m |-> VecFrom(sm, n), m2 |-> VecFrom(sm + 2, n), c |-> c]

\* the calls of PedersenCommitment::commit on the caller's vectors, their sums
\* and their multiples
PedersenCommit ==
  /\ phase = "start"
  /\ phase' = "committed"
  /\ out' = [tag |-> "Ok",
             k_m |-> commit(inp.k, inp.m),
             k_m2 |-> commit(inp.k, inp.m2),
             k2_m |-> commit(inp.k2, inp.m),
             k_msum |-> commit(inp.k, VecAdd(inp.m, inp.m2)),
             ksum_m |-> commit(VecAdd(inp.k, inp.k2), inp.m),
             ck_m |-> commit(VecScale(inp.c, inp.k), inp.m),
             k_cm |-> commit(inp.k, VecScale(inp.c, inp.m))]
  /\ UNCHANGED <<inp, ver>>

NextCommit == PedersenCommit

SpecCommit == InitCommit /\ [][NextCommit]_vars

\* C15: commit(k, m) is the sum of m_i * k_i, additive in the message and in
\* the key, and a scalar moves between key, message and commitment
C15_PedersenBilinear ==
  (phase = "committed") =>
    /\ out.k_m = SumSeq([i \in 1 .. Len(inp.k) |-> FMul(inp.m[i], inp.k[i])])
    /\ out.k_msum = FAdd(out.k_m, out.k_m2)
    /\ out.ksum_m = FAdd(out.k_m, out.k2_m)
    /\ out.ck_m = out.k_cm
    /\ out.ck_m = FMul(inp.c, out.k_m)

\* C15 witness: vectors of length 4, distinct keys and messages, c = 3, and a
\* commitment that is not the identity
C15_Witness ==
  /\ phase = "committed" /\ Len(inp.k) = 4
  /\ inp.k # inp.k2 /\ inp.m # inp.m2 /\ inp.c = 3
  /\ out.k_m # 0 /\ out.k_msum # out.k_m /\ out.ck_m # out.k_m

(***************************** the rounds of recursive_prove as a system ***)
\* the arguments of the first call of recursive_prove: the caller's vectors
\* and keys and the default transcript
FirstCall ==
  [m_a |-> inp.m_a, m_b |-> inp.m_b, ck_a |-> inp.ck_a, ck_b |-> inp.ck_b,
   ck_t |-> <<inp.ck_t>>, transcript |-> 0,
   com |-> <<inp.com_a, inp.com_b, inp.com_t>>]

\* the arguments of the call of recursive_prove that runs next
Cur == IF phase = "start" THEN FirstCall ELSE out.cur

\* a caller of recursive_prove (through GIPA::prove, all checks passed):
\* vectors and keys of length n = 2^k and the commitments of the vectors
InitRounds ==
  /\ phase = "start"
  /\ out = [tag |-> "none"]
  /\ ver = [tag |-> "none"]
  /\ \E k \in 0 .. MaxLog, sa \in Seeds, sb \in Seeds, sk \in Seeds,
        kt \in 1 .. 2, d \in Digests :
       inp = [m_a |-> VecFrom(sa, Pow2(k)), m_b |-> VecFrom(sb + 1, Pow2(k)),
              ck_a |-> KeysFrom(sk + sa, Pow2(k)), ck_b |-> KeysFrom(sk + 2, Pow2(k)),
              ck_t |-> kt,
              com_a |-> commit(KeysFrom(sk + sa, Pow2(k)), VecFrom(sa, Pow2(k))),
              com_b |-> commit(KeysFrom(sk + 2, Pow2(k)), VecFrom(sb + 1, Pow2(k))),
              com_t |-> commit(<<kt>>, <<inner_product(VecFrom(sa, Pow2(k)),
                                                       VecFrom(sb + 1, Pow2(k)))>>),
              d |-> d]

\* the recursive step of one call of recursive_prove, up to the call for the
\* next round: com_1, com_2, the challenge, the four folds.  prev keeps the
\* arguments of this call; cur.com is the commitment triple of the inputs
\* folded with the round's com_1, com_2 and challenge, com + c * com_1 + c_inv * com_2
RoundStep ==
  /\ phase \in {"start", "folded"}
  /\ Len(Cur.m_a) >= 2
  /\ \E c1 \in {com_1(Cur.m_a, Cur.m_b, Cur.ck_a, Cur.ck_b, Cur.ck_t)},
        c2 \in {com_2(Cur.m_a, Cur.m_b, Cur.ck_a, Cur.ck_b, Cur.ck_t)} :
       \E ch \in {gipa_challenge(inp.d, Cur.transcript, c1, c2)} :
         IF ch = None
         THEN /\ phase' = "diverged"
              /\ out' = [tag |-> "Diverges"]
         ELSE /\ phase' = "folded"
              /\ out' = [tag |-> "Round", prev |-> Cur,
                         com_1 |-> c1, com_2 |-> c2,
                         c |-> ch[1][1], c_inv |-> ch[1][2],
                         cur |-> [m_a |-> m_a_recurse(Cur.m_a, ch[1][1]),
                                  m_b |-> m_b_recurse(Cur.m_b, ch[1][2]),
                                  ck_a |-> ck_a_recurse(Cur.ck_a, ch[1][2]),
                                  ck_b |-> ck_b_recurse(Cur.ck_b, ch[1][1]),
                                  ck_t |-> Cur.ck_t,
                                  transcript |-> ch[1][1],
                                  com |-> [i \in 1 .. 3 |->
                                             FAdd(FAdd(Cur.com[i], mul_helper(c1[i], ch[1][1])),
                                                  mul_helper(c2[i], ch[1][2]))]]]
  /\ UNCHANGED <<inp, ver>>

\* the base case of recursive_prove: (m_a[0], m_b[0])
RoundBase ==
  /\ phase \in {"start", "folded"}
  /\ Len(Cur.m_a) = 1
  /\ phase' = "base"
  /\ out' = [tag |-> "Ok", base |-> <<Cur.m_a[1], Cur.m_b[1]>>, cur |-> Cur]
  /\ UNCHANGED <<inp, ver>>

NextRounds == RoundStep \/ RoundBase

SpecRounds == InitRounds /\ [][NextRounds]_vars

\* a round has run: out holds its inputs (prev), its challenge and its folds (cur)
Folded == phase = "folded"

\* C16: in a round on length n with challenge c the next messages are
\* a'[i] = c * a[n/2 + i] + a[i] and b'[i] = c^(-1) * b[n/2 + i] + b[i], of length n/2
C16_MessageFolding ==
  Folded =>
    /\ FMul(out.c, out.c_inv) = 1
    /\ Len(out.cur.m_a) = Len(out.prev.m_a) \div 2
    /\ Len(out.cur.m_b) = Len(out.prev.m_b) \div 2
    /\ \A i \in 1 .. (Len(out.prev.m_a) \div 2) :
         /\ out.cur.m_a[i] =
              FAdd(FMul(out.c, out.prev.m_a[(Len(out.prev.m_a) \div 2) + i]), out.prev.m_a[i])
         /\ out.cur.m_b[i] =
              FAdd(FMul(out.c_inv, out.prev.m_b[(Len(out.prev.m_b) \div 2) + i]), out.prev.m_b[i])

\* C16 witness: a round on length 4 with a challenge other than 1 that changes
\* both messages
C16_Witness ==
  /\ Folded /\ Len(out.prev.m_a) = 4 /\ Len(out.cur.m_a) = 2
  /\ out.c # 1
  /\ out.cur.m_a # SubSeq(out.prev.m_a, 1, 2)
  /\ out.cur.m_b # SubSeq(out.prev.m_b, 1, 2)

\* the left key of the next round, as C17 states it and as the code computes
\* it: ck_L'[i] = c^(-1) * ck_L[n/2 + i] + ck_L[i], of length n/2, ck_T unchanged
LeftKeyFolded ==
  /\ Len(out.cur.ck_a) = Len(out.prev.ck_a) \div 2
  /\ \A i \in 1 .. (Len(out.prev.ck_a) \div 2) :
       out.cur.ck_a[i] =
         FAdd(FMul(out.c_inv, out.prev.ck_a[(Len(out.prev.ck_a) \div 2) + i]), out.prev.ck_a[i])
  /\ out.cur.ck_t = out.prev.ck_t

\* C17 as stated: the left key as above, and the right key
\* ck_R'[i] = c * ck_R[i] + ck_R[n/2 + i]
C17_KeyFoldingAsStated ==
  Folded =>
    /\ LeftKeyFolded
    /\ Len(out.cur.ck_b) = Len(out.prev.ck_b) \div 2
    /\ \A i \in 1 .. (Len(out.prev.ck_b) \div 2) :
         out.cur.ck_b[i] =
           FAdd(FMul(out.c, out.prev.ck_b[i]), out.prev.ck_b[(Len(out.prev.ck_b) \div 2) + i])

\* C17 amended: the left key as above, and the right key
\* ck_R'[i] = c * ck_R[n/2 + i] + ck_R[i]: the upper half is the scaled one
C17_KeyFolding ==
  Folded =>
    /\ LeftKeyFolded
    /\ Len(out.cur.ck_b) = Len(out.prev.ck_b) \div 2
    /\ \A i \in 1 .. (Len(out.prev.ck_b) \div 2) :
         out.cur.ck_b[i] =
           FAdd(FMul(out.c, out.prev.ck_b[(Len(out.prev.ck_b) \div 2) + i]), out.prev.ck_b[i])

\* C17 witness: a round on length 4 with a challenge other than 1, keys whose
\* halves differ, and a right key that is not the one of the stated formula
C17_Witness ==
  /\ Folded /\ Len(out.prev.ck_b) = 4 /\ Len(out.cur.ck_b) = 2
  /\ out.c # 1
  /\ SubSeq(out.prev.ck_b, 1, 2) # SubSeq(out.prev.ck_b, 3, 4)
  /\ out.cur.ck_b[1] # FAdd(FMul(out.c, out.prev.ck_b[1]), out.prev.ck_b[3])
  /\ out.cur.ck_b[1] = FAdd(FMul(out.c, out.prev.ck_b[3]), out.prev.ck_b[1])

\* C + c * L + c^(-1) * R in one component of the commitment triple
FoldCom(C, L, R, c, c_inv) == FAdd(FAdd(C, FMul(c, L)), FMul(c_inv, R))

\* C18: in every round, L and R are the cross commitments of the halves
\* (a1 = a[n/2:], b1 = b[:n/2], a2 = a[:n/2], b2 = b[n/2:]) and the folded
\* vectors under the folded keys commit to C + c * L + c^(-1) * R in each of the
\* three components, C being the commitments of the round's inputs; and at the
\* base case (a*, b*) opens the fully folded triple under the final keys
C18_FoldingInvariant ==
  /\ Folded =>
       /\ out.com_1 = <<commit(SubSeq(out.prev.ck_a, 1, Len(out.prev.ck_a) \div 2),
                               SubSeq(out.prev.m_a, (Len(out.prev.m_a) \div 2) + 1, Len(out.prev.m_a))),
                        commit(SubSeq(out.prev.ck_b, (Len(out.prev.ck_b) \div 2) + 1, Len(out.prev.ck_b)),
                               SubSeq(out.prev.m_b, 1, Len(out.prev.m_b) \div 2)),
                        commit(out.prev.ck_t,
                               <<inner_product(SubSeq(out.prev.m_a, (Len(out.prev.m_a) \div 2) + 1, Len(out.prev.m_a)),
                                               SubSeq(out.prev.m_b, 1, Len(out.prev.m_b) \div 2))>>)>>
       /\ out.com_2 = <<commit(SubSeq(out.prev.ck_a, (Len(out.prev.ck_a) \div 2) + 1, Len(out.prev.ck_a)),
                               SubSeq(out.prev.m_a, 1, Len(out.prev.m_a) \div 2)),
                        commit(SubSeq(out.prev.ck_b, 1, Len(out.prev.ck_b) \div 2),
                               SubSeq(out.prev.m_b, (Len(out.prev.m_b) \div 2) + 1, Len(out.prev.m_b))),
                        commit(out.prev.ck_t,
                               <<inner_product(SubSeq(out.prev.m_a, 1, Len(out.prev.m_a) \div 2),
                                               SubSeq(out.prev.m_b, (Len(out.prev.m_b) \div 2) + 1, Len(out.prev.m_b)))>>)>>
       /\ commit(out.cur.ck_a, out.cur.m_a) =
            FoldCom(commit(out.prev.ck_a, out.prev.m_a), out.com_1[1], out.com_2[1], out.c, out.c_inv)
       /\ commit(out.cur.ck_b, out.cur.m_b) =
            FoldCom(commit(out.prev.ck_b, out.prev.m_b), out.com_1[2], out.com_2[2], out.c, out.c_inv)
       /\ commit(out.cur.ck_t, <<inner_product(out.cur.m_a, out.cur.m_b)>>) =
            FoldCom(commit(out.prev.ck_t, <<inner_product(out.prev.m_a, out.prev.m_b)>>),
                    out.com_1[3], out.com_2[3], out.c, out.c_inv)
  /\ phase = "base" =>
       /\ Len(out.cur.ck_a) = 1 /\ Len(out.cur.ck_b) = 1
       /\ commit_verify(out.cur.ck_a, <<out.base[1]>>, out.cur.com[1])
       /\ commit_verify(out.cur.ck_b, <<out.base[2]>>, out.cur.com[2])
       /\ commit_verify(out.cur.ck_t, <<FMul(out.base[1], out.base[2])>>, out.cur.com[3])

\* C18 witness: the base case after two rounds (length 4) whose folded triple
\* differs from the commitments the prover started from
C18_Witness ==
  /\ phase = "base" /\ Len(inp.m_a) = 4
  /\ out.cur.com # <<inp.com_a, inp.com_b, inp.com_t>>
  /\ out.cur.transcript \notin {0, 1}
  /\ out.cur.com[1] # 0 /\ out.cur.com[3] # 0

(************** the key polynomials of the TIPA prover, on their own ********)

\* the left key folded as recursive_prove folds it, round after round; the
\* transcript holds the challenge of the last round first
RECURSIVE FoldLeftKey(_, _)
FoldLeftKey(ck_a, transcript) ==
  IF Len(ck_a) = 1 THEN ck_a[1]
  ELSE FoldLeftKey(ck_a_recurse(ck_a, Inv(transcript[Len(transcript)])),
                   SubSeq(transcript, 1, Len(transcript) - 1))

\* a transcript of k <= MaxLog field elements, a point z and a shift r_shift
InitTranscript ==
  /\ phase = "start"
  /\ out = [tag |-> "none"]
  /\ ver = [tag |-> "none"]
  /\ \E k \in 0 .. MaxLog, z \in F, r_shift \in F :
       \E transcript \in [1 .. k -> F] :
         inp = [transcript |-> transcript, z |-> z, r_shift |-> r_shift]

\* polynomial_coefficients_from_transcript(transcript, r_shift)
Coefficients ==
  /\ phase = "start"
  /\ phase' = "expanded"
  /\ out' = [tag |-> "Coefficients",
             coefficients |-> polynomial_coefficients_from_transcript(inp.transcript, inp.r_shift)]
  /\ UNCHANGED <<inp, ver>>

\* polynomial_evaluation_product_form_from_transcript(transcript, z, r_shift)
\* and the quotient the prover takes with it: (polynomial - eval) / (X - z)
ProductForm ==
  /\ phase = "expanded"
  /\ phase' = "evaluated"
  /\ \E eval \in {polynomial_evaluation_product_form_from_transcript(
                    inp.transcript, inp.z, inp.r_shift)} :
       ver' = [tag |-> "Eval", eval |-> eval,
               quotient |-> poly_div_linear(
                              poly_sub(from_coefficients(out.coefficients),
                                       from_coefficients(<<eval>>)), inp.z)]
  /\ UNCHANGED <<inp, out>>

\* the left key polynomial of prove_with_srs_shift: the inverses of the
\* transcript and of r_shift, the coefficients, the assert_eq on their number;
\* the left key is the one of setup(2^k) under beta, shifted by r_shift
LeftKeyPolynomial ==
  /\ phase = "start"
  /\ phase' = "left"
  /\ \E beta \in Trapdoors :
       IF \E i \in 1 .. Len(inp.transcript) : inverse(inp.transcript[i]) = None
       THEN out' = [tag |-> "Panic", at |-> "transcript inverse"]
       ELSE IF inverse(inp.r_shift) = None
       THEN out' = [tag |-> "Panic", at |-> "r_shift inverse"]
       ELSE \E h_beta_powers \in {structured_generators_scalar_power(
                                    2 * Pow2(Len(inp.transcript)) - 1, 1, beta)},
               coefficients \in {polynomial_coefficients_from_transcript(
                                   [i \in 1 .. Len(inp.transcript) |-> Inv(inp.transcript[i])],
                                   Inv(inp.r_shift))} :
              IF Len(h_beta_powers) # Len(from_coefficients(coefficients))
              THEN out' = [tag |-> "Panic", at |-> "assert_eq"]
              ELSE out' = [tag |-> "LeftKey", beta |-> beta,
                           h_beta_powers |-> h_beta_powers,
                           ck_a_r |-> ShiftKeys(StepBy2(h_beta_powers), inp.r_shift),
                           coefficients |-> coefficients]
  /\ UNCHANGED <<inp, ver>>

NextTranscript == Coefficients \/ ProductForm \/ LeftKeyPolynomial

SpecTranscript == InitTranscript /\ [][NextTranscript]_vars

\* q * (X - z) for a quotient q, as a polynomial
TimesLinear(q, z) ==
  from_coefficients([i \in 1 .. (Len(q) + 1) |->
                       FSub(IF i >= 2 THEN q[i - 1] ELSE 0,
                            FMul(z, IF i <= Len(q) THEN q[i] ELSE 0))])

\* C19: the product form equals the value at z of the polynomial with the
\* zero-interleaved coefficients, for every transcript, z and r_shift; and
\* the quotient by (X - z) taken with it is exact: quotient * (X - z) is
\* polynomial - eval, nothing is left over
C19_ProductFormIsEvaluation ==
  phase = "evaluated" =>
    /\ ver.eval = poly_evaluate(out.coefficients, inp.z)
    /\ TimesLinear(ver.quotient, inp.z) =
         poly_sub(from_coefficients(out.coefficients), from_coefficients(<<ver.eval>>))

\* C19 witness: two challenges, none of transcript, z, r_shift trivial, a
\* quotient of full degree
C19_Witness ==
  /\ phase = "evaluated" /\ Len(inp.transcript) = 2
  /\ inp.transcript[1] \notin {0, 1} /\ inp.transcript[2] \notin {0, 1}
  /\ inp.z \notin {0, 1} /\ inp.r_shift \notin {0, 1}
  /\ ver.eval \notin {0, 1}
  /\ Len(ver.quotient) = 6

\* bit i of j is set
BitSet(j, i) == (j \div Pow2(i)) % 2 = 1

\* the left key polynomial has been built from an invertible transcript and shift
LeftBuilt == phase = "left" /\ out.tag = "LeftKey"

\* the layout of the coefficient sequence: length 2n - 1 for n = 2^k, zeros at
\* all odd indices (counted from 0), and ck_L* = sum_j f_L,j * (beta^(2j) * h)
\* for the final left key ck_L* of the folding with the transcript's challenges
LeftKeyLayout ==
  /\ Len(out.coefficients) = 2 * Pow2(Len(inp.transcript)) - 1
  /\ \A j \in 0 .. (Len(out.coefficients) - 1) :
       j % 2 = 1 => out.coefficients[j + 1] = 0
  /\ FoldLeftKey(out.ck_a_r, inp.transcript) =
       SumSeq([j \in 1 .. Pow2(Len(inp.transcript)) |->
                 FMul(out.coefficients[2 * (j - 1) + 1],
                      FMul(FPow(out.beta, 2 * (j - 1)), 1))])

\* C20 as stated: the coefficient at index 2j is the product of
\* c_i^(-1) * r^(-1) over the set bits i of j
C20_LeftKeyPolynomialAsStated ==
  LeftBuilt =>
    /\ LeftKeyLayout
    /\ \A j \in 0 .. (Pow2(Len(inp.transcript)) - 1) :
         out.coefficients[2 * j + 1] =
           ProdSeq([i \in 1 .. Len(inp.transcript) |->
                      IF BitSet(j, i - 1)
                      THEN FMul(Inv(inp.transcript[i]), Inv(inp.r_shift))
                      ELSE 1])

\* C20 amended: the coefficient at index 2j is the product of
\* c_i^(-1) * r^(-2^i) over the set bits i of j, that is r^(-j) times the
\* product of the c_i^(-1): f_L(X) = prod_i (1 + c_i^(-1) * (X / r)^(2^i))
C20_LeftKeyPolynomial ==
  LeftBuilt =>
    /\ LeftKeyLayout
    /\ \A j \in 0 .. (Pow2(Len(inp.transcript)) - 1) :
         /\ out.coefficients[2 * j + 1] =
              ProdSeq([i \in 1 .. Len(inp.transcript) |->
                         IF BitSet(j, i - 1)
                         THEN FMul(Inv(inp.transcript[i]), FPow(Inv(inp.r_shift), Pow2(i - 1)))
                         ELSE 1])
         /\ out.coefficients[2 * j + 1] =
              FMul(FPow(Inv(inp.r_shift), j),
                   ProdSeq([i \in 1 .. Len(inp.transcript) |->
                              IF BitSet(j, i - 1) THEN Inv(inp.transcript[i]) ELSE 1]))

\* C20 witness: two challenges and a shift r with r^(-1) # r^(-2), where the
\* coefficient of index 4 (j = 2) is not the stated c_1^(-1) * r^(-1)
C20_Witness ==
  /\ LeftBuilt /\ Len(inp.transcript) = 2
  /\ inp.r_shift \notin {0, 1}
  /\ out.beta \notin {0, 1}
  /\ Len(out.coefficients) = 7
  /\ out.coefficients[5] # FMul(Inv(inp.transcript[2]), Inv(inp.r_shift))
  /\ out.coefficients[5] = FMul(Inv(inp.transcript[2]), FPow(Inv(inp.r_shift), 2))

\* C21: the challenge of the first round is the digest of (counter, field
\* zero, L_1, L_2, L_3, R_1, R_2, R_3) and the challenge of every later round
\* the digest of (counter, the challenge of the round before, L, R) of its own
\* round, in this order; nothing else enters
C21_ChallengeChaining ==
  [][phase' = "folded" =>
       /\ out'.prev.transcript = (IF phase = "start" THEN 0 ELSE out.c)
       /\ out'.com_1 = com_1(out'.prev.m_a, out'.prev.m_b, out'.prev.ck_a,
                             out'.prev.ck_b, out'.prev.ck_t)
       /\ out'.com_2 = com_2(out'.prev.m_a, out'.prev.m_b, out'.prev.ck_a,
                             out'.prev.ck_b, out'.prev.ck_t)
       /\ from_random_bytes(
            Digest(inp.d, 0,
                   <<IF phase = "start" THEN 0 ELSE out.c,
                     out'.com_1[1], out'.com_1[2], out'.com_1[3],
                     out'.com_2[1], out'.com_2[2], out'.com_2[3]>>)) = Some(out'.c)]_vars

\* C21 witness: a second round, run on the nonzero challenge of the first,
\* whose digest is not the one of the same commitments after the field's zero
\* nor the one of R before L
C21_Witness ==
  /\ Folded /\ Len(inp.m_a) = 4 /\ Len(out.prev.m_a) = 2
  /\ out.prev.transcript # 0
  /\ Digest(inp.d, 0, <<out.prev.transcript>> \o out.com_1 \o out.com_2)
       # Digest(inp.d, 0, <<0>> \o out.com_1 \o out.com_2)
  /\ Digest(inp.d, 0, <<out.prev.transcript>> \o out.com_1 \o out.com_2)
       # Digest(inp.d, 0, <<out.prev.transcript>> \o out.com_2 \o out.com_1)

(********************* the plain KZG scheme, on its own *********************)

\* a caller of KZG: a polynomial of at most MaxLog + 1 coefficients in
\* 0 .. MaxShift, the powers and the verifier key of an SRS large enough for
\* it, and a point
InitKZG ==
  /\ phase = "start"
  /\ out = [tag |-> "none"]
  /\ ver = [tag |-> "none"]
  /\ \E len \in 0 .. (MaxLog + 1), alpha \in Trapdoors, point \in Points :
       \E coeffs \in [1 .. len -> 0 .. MaxShift] :
         \E srs \in {TIPA_setup(MaxOf(1, Len(from_coefficients(coeffs))), alpha, alpha)} :
           inp = [polynomial |-> from_coefficients(coeffs),
                  powers |-> srs.g_alpha_powers,
                  v_srs |-> get_verifier_key(srs),
                  alpha |-> alpha, point |-> point]

\* KZG::commit(powers, polynomial)
KzgCommit ==
  /\ phase = "start"
  /\ phase' = "committed"
  /\ \E com \in {KZG_commit(inp.powers, inp.polynomial)} :
       out' = IF com = None THEN [tag |-> "Panic", at |-> "assert"]
              ELSE [tag |-> "Ok", com |-> com[1]]
  /\ UNCHANGED <<inp, ver>>

\* KZG::open(powers, polynomial, point)
KzgOpen ==
  /\ phase = "committed"
  /\ out.tag = "Ok"
  /\ phase' = "opened"
  /\ \E proof \in {KZG_open(inp.powers, inp.polynomial, inp.point)} :
       out' = IF proof = None THEN [tag |-> "Panic", at |-> "assert"]
              ELSE [tag |-> "Ok", com |-> out.com, proof |-> proof[1]]
  /\ UNCHANGED <<inp, ver>>

\* KZG::verify(v_srs, com, point, eval, proof) for a claimed value eval
KzgVerify ==
  /\ phase = "opened"
  /\ out.tag = "Ok"
  /\ phase' = "verified"
  /\ \E eval \in F :
       ver' = [eval |-> eval,
               res |-> KZG_verify(inp.v_srs, out.com, inp.point, eval, out.proof)]
  /\ UNCHANGED <<inp, out>>

NextKZG == KzgCommit \/ KzgOpen \/ KzgVerify

SpecKZG == InitKZG /\ [][NextKZG]_vars

\* C22: for a polynomial of degree < len(powers), commit and open succeed and
\* verify accepts a claimed value exactly when it is the value of the
\* polynomial at the point
C22_KzgOpeningExact ==
  /\ phase \in {"committed", "opened"} => out.tag = "Ok"
  /\ phase = "verified" =>
       (ver.res <=> ver.eval = poly_evaluate(inp.polynomial, inp.point))

\* C22 witness: a polynomial of degree 2 with a nonzero value at a nonzero
\* point (the remainder open drops), accepted with that value
C22_Witness ==
  /\ phase = "verified" /\ Len(inp.polynomial) = 3
  /\ inp.point # 0 /\ inp.alpha \notin {0, inp.point}
  /\ poly_evaluate(inp.polynomial, inp.point) # 0
  /\ out.proof # 0
  /\ ver.eval = poly_evaluate(inp.polynomial, inp.point)
  /\ ver.res

(************* the TIPA prover on inputs shorter than the SRS ***************)

\* setup(size) for size = 2^ks, and a caller with vectors of length
\* n = 2^k <= size and the first n commitment keys of the SRS
InitSized ==
  /\ phase = "start"
  /\ out = [tag |-> "none"]
  /\ ver = [tag |-> "none"]
  /\ \E ks \in 0 .. MaxLog, alpha \in Trapdoors, beta \in Trapdoors,
        sa \in Seeds, sb \in Seeds, r \in Shifts, d \in Digests :
       \E k \in 0 .. ks :
         \E srs \in {TIPA_setup(Pow2(ks), alpha, beta)} :
           \E ck \in {get_commitment_keys(srs)} :
             inp = [size |-> Pow2(ks), n |-> Pow2(k), srs |-> srs,
                    m_a_r |-> ShiftMessages(VecFrom(sa, Pow2(k)), r),
                    m_b |-> VecFrom(sb + 1, Pow2(k)),
                    ck_a_r |-> ShiftKeys(SubSeq(ck[1], 1, Pow2(k)), r),
                    ck_b |-> SubSeq(ck[2], 1, Pow2(k)),
                    ck_t |-> 1 + ((sa + sb) % 2),
                    r |-> r, d |-> d]

\* one call of TIPA::prove_with_srs_shift
SizedProve ==
  /\ phase = "start"
  /\ phase' = "proved"
  /\ out' = prove_with_srs_shift(inp.srs, <<inp.m_a_r, inp.m_b>>,
                                 <<inp.ck_a_r, inp.ck_b, inp.ck_t>>, inp.r, inp.d)
  /\ UNCHANGED <<inp, ver>>

NextSized == SizedProve

SpecSized == InitSized /\ [][NextSized]_vars

\* the call has ended on the assert_eq of prove_with_srs_shift
AssertionFailed == out.tag = "Panic" /\ out.at = "assert_eq"

\* C23: for an input of length n >= 2 equal to the size given to setup the
\* assert_eq never fails (with an invertible shift the call does not abort at
\* all: the left-key polynomial keeps all 2n - 1 coefficients); for an input
\* shorter than the size of the SRS (and an invertible shift) the call returns
\* neither a proof nor an error value: where it ends, it ends on the assert_eq
C23_ProverSizeAssertion ==
  phase = "proved" =>
    /\ (inp.n = inp.size /\ inp.n >= 2) =>
         /\ ~AssertionFailed
         /\ inp.r # 0 => out.tag # "Panic"
    /\ (inp.n < inp.size /\ inp.r # 0) =>
         /\ out.tag \notin {"Ok", "Err"}
         /\ out.tag = "Panic" => AssertionFailed

\* C23 witness: vectors of length 2 under an SRS of size 4 and a shift other
\* than 0 and 1, ended on the assert_eq
C23_Witness ==
  /\ phase = "proved" /\ inp.n = 2 /\ inp.size = 4
  /\ inp.r \notin {0, 1}
  /\ AssertionFailed


====
